---- MODULE Spec2Model ----
(***************************************************************************)
(* A model of cli/download.py: download_model (release download followed   *)
(* by the reassembly of split model files), clone_taxonomy and             *)
(* create_subprocess.  File names, file contents and command arguments are *)
(* strings; the file system is a function from directory to (file name ->  *)
(* contents).  The external tools (gh, ls, cat, rm, git) are modelled by   *)
(* what they do to the file system and by the result they hand back; where *)
(* a tool can succeed or fail, both outcomes are possible.                 *)
(***************************************************************************)
EXTENDS Naturals, Sequences, FiniteSets, TLC

VARIABLES
    op,                   \* which function this run calls
    pc,                   \* position inside the function
    gh_repo, gh_release, dir, pattern,        \* arguments of download_model
    gh_branch, git_filter_spec,               \* arguments of clone_taxonomy
    local_paths,          \* paths for which os.path.exists is true
    fs,                   \* directory -> (file name -> contents)
    download_commands,    \* line 28-34
    gh_result,            \* line 35
    file_list,            \* line 42
    splitted_models,      \* line 43-55, a dict in insertion order
    gi,                   \* number of dict items the loop of line 59 has finished
    combined_model_list,  \* line 58, 70
    git_clone_commands,   \* line 97-104
    result,               \* line 106
    calls,                \* every create_subprocess call, in order, with its result
    opened,               \* every file opened for writing (line 65), in order
    raised,               \* the exception that left the function, or NoException
    echoed,               \* click.echo output that reports results
    pass,                 \* the number of the download_model call
    downloaded            \* history: what the gh run of this call put on disk

vars == <<op, pc, gh_repo, gh_release, dir, pattern, gh_branch, git_filter_spec,
          local_paths, fs, download_commands, gh_result, file_list,
          splitted_models, gi, combined_model_list, git_clone_commands, result,
          calls, opened, raised, echoed, pass, downloaded>>

-----------------------------------------------------------------------------
(* Bounds of the model *)

MaxPasses == 2        \* calls of download_model in one run
MaxAssets == 2        \* files one gh run places on disk
MaxPreExisting == 1   \* marker-bearing files in the working directory beforehand
MaxUnreadable == 1    \* files of one cat call that cannot be read
MaxUndeletable == 1   \* files of one rm call that cannot be removed

-----------------------------------------------------------------------------
(* Strings *)

\* The characters of the model's file names, in byte order.
Alphabet == "\t\n *,.12abcdefilmopqrstwxz"

Char(s, i) == SubSeq(s, i, i)

Code(c) == CHOOSE i \in 1..Len(Alphabet) : Char(Alphabet, i) = c

Min2(a, b) == IF a <= b THEN a ELSE b

\* Byte-wise lexicographic order, the order in which ls prints names.
StrLess(a, b) ==
    LET n == Min2(Len(a), Len(b))
        diff == {i \in 1..n : Char(a, i) # Char(b, i)}
    IN  IF diff = {}
        THEN Len(a) < Len(b)
        ELSE LET k == CHOOSE i \in diff : \A j \in diff : i <= j
             IN  Code(Char(a, k)) < Code(Char(b, k))

RECURSIVE SortNames(_)
SortNames(S) ==
    IF S = {} THEN <<>>
    ELSE LET m == CHOOSE x \in S : \A y \in S \ {x} : StrLess(x, y)
         IN  <<m>> \o SortNames(S \ {m})

RECURSIVE Concat(_)
Concat(ss) == IF ss = <<>> THEN "" ELSE Head(ss) \o Concat(Tail(ss))

Range(s) == {s[i] : i \in 1..Len(s)}

-----------------------------------------------------------------------------
(* The world outside the program *)

NoException == [kind |-> "none", text |-> ""]

\* The split files a release can hold, with their contents.
Assets ==
    [n \in {"a.split.1", "a.split.2", "a.split.b.split.c", "b.split.x"} |->
        CASE n = "a.split.1" -> "foo"
          [] n = "a.split.2" -> "bar"
          [] n = "a.split.b.split.c" -> "q"
          [] n = "b.split.x" -> ""]

\* Files that can lie in the working directory before the call.
PreExisting ==
    [n \in {".split.x", "m f.split.1", "readme"} |->
        CASE n = ".split.x" -> "z"
          [] n = "m f.split.1" -> "w"
          [] n = "readme" -> "r"]

Repos == {"https://github.com/open-labrador/cli.git", "https://example.org/fork.git"}
Releases == {"latest", "v1"}
Dirs == {".", "models"}
Patterns == {"", "a*"}
Branches == {"main", "dev"}
FilterSpecs == {"", "f.spec"}

\* gh's glob, for the patterns of the model.
GlobMatch(pat, name) ==
    CASE pat = "*" -> TRUE
      [] pat = "a*" -> Char(name, 1) = "a"
      [] OTHER -> name = pat

\* The positions of option opt in a command line.
OptionIdx(cmd, opt) == {i \in 1..(Len(cmd) - 1) : cmd[i] = opt}

\* The values option opt carries in a command line.
OptionValues(cmd, opt) == {cmd[i + 1] : i \in OptionIdx(cmd, opt)}

\* ls: the names of a directory, sorted, one per line.
LsOutput(d) == Concat([i \in 1..Cardinality(DOMAIN d) |-> SortNames(DOMAIN d)[i] \o "\n"])

\* The files of d, with the files of e added.
Overlay(d, e) ==
    [n \in (DOMAIN d) \cup (DOMAIN e) |-> IF n \in DOMAIN e THEN e[n] ELSE d[n]]

\* The files of d without those named in S.
Without(d, S) == [n \in (DOMAIN d) \ S |-> d[n]]

\* cat: the contents of the files it can read, in argument order; it exits
\* non-zero when a file is missing or unreadable.
CatStdout(d, files, bad) ==
    Concat([i \in 1..Len(files) |->
              IF files[i] \in DOMAIN d /\ files[i] \notin bad THEN d[files[i]] ELSE ""])

CatReturncode(d, files, bad) ==
    IF \A i \in 1..Len(files) : files[i] \in DOMAIN d /\ files[i] \notin bad THEN 0 ELSE 1

\* The outcomes of one invocation: which of its files the tool fails on.
Failing(files, max) == {S \in SUBSET Range(files) : Cardinality(S) <= max}

-----------------------------------------------------------------------------
(* download_model: pure parts *)

model_file_split_keyword == ".split."

\* list.pop(i) with Python's 0-based index.
Pop(list, i) == SubSeq(list, 1, i) \o SubSeq(list, i + 2, Len(list))

\* A variant that leaves the release tag in place for "latest".
DownloadCommandsKeepTag(repo, release, d, pat) ==
    LET c0 == <<"gh", "release", "download", release, "--repo", repo, "--dir", d>>
        c1 == IF pat # "" THEN c0 \o <<"--pattern", pat>> ELSE c0
    IN  IF release = "latest" /\ pat = "" THEN c1 \o <<"--pattern", "*">> ELSE c1

DownloadCommands(repo, release, d, pat) ==
    LET c0 == <<"gh", "release", "download", release, "--repo", repo, "--dir", d>>
        c1 == IF pat # "" THEN c0 \o <<"--pattern", pat>> ELSE c0
    IN  IF release = "latest"
        THEN IF pat = "" THEN Pop(c1, 3) \o <<"--pattern", "*">> ELSE Pop(c1, 3)
        ELSE c1

\* keyword in file
Contains(file, kw) ==
    \E i \in 1..Len(file) :
        i + Len(kw) - 1 <= Len(file) /\ SubSeq(file, i, i + Len(kw) - 1) = kw

\* the character class [^ \t\n,]
InClass(c) == c \notin {" ", "\t", "\n", ","}

\* The keyword as the regular expression reads it: each "." stands for any
\* character but a newline.
KeywordMatch(s) ==
    /\ Len(s) = Len(model_file_split_keyword)
    /\ \A k \in 1..Len(s) :
          IF Char(model_file_split_keyword, k) = "."
          THEN Char(s, k) # "\n"
          ELSE Char(s, k) = Char(model_file_split_keyword, k)

\* ([^ \t\n,]+)<keyword>[^ \t\n,]+ matches file from position i, with the
\* group ending at position j.  The trailing class need only match one
\* character for the match to exist.
MatchAt(file, i, j) ==
    LET n == Len(model_file_split_keyword) IN
    /\ i <= j
    /\ j + n + 1 <= Len(file)
    /\ \A k \in i..j : InClass(Char(file, k))
    /\ KeywordMatch(SubSeq(file, j + 1, j + n))
    /\ InClass(Char(file, j + n + 1))

\* re.findall(model_name_regex, file)[0]: the leftmost match, its group
\* taken greedily; <<>> when nothing matches.
FindFirst(file) ==
    LET starts == {i \in 1..Len(file) : \E j \in i..Len(file) : MatchAt(file, i, j)}
    IN  IF starts = {} THEN <<>>
        ELSE LET i0 == CHOOSE i \in starts : \A k \in starts : i <= k
                 ends == {j \in i0..Len(file) : MatchAt(file, i0, j)}
                 j0 == CHOOSE j \in ends : \A k \in ends : k <= j
             IN  <<SubSeq(file, i0, j0)>>

\* A dict as the sequence of its items in insertion order.
DictKeys(dict) == [i \in 1..Len(dict) |-> dict[i].key]

DictAdd(dict, key, file) ==
    IF \E i \in 1..Len(dict) : dict[i].key = key /\ dict[i].value # <<>>
    THEN [i \in 1..Len(dict) |->
            IF dict[i].key = key
            THEN [key |-> key, value |-> Append(dict[i].value, file)]
            ELSE dict[i]]
    ELSE Append(dict, [key |-> key, value |-> <<file>>])

\* lines 46-55
RECURSIVE GroupFiles(_, _)
GroupFiles(list, dict) ==
    IF list = <<>> THEN dict
    ELSE LET file == Head(list)
             regex_result == FindFirst(file)
         IN  IF Contains(file, model_file_split_keyword) /\ regex_result # <<>>
             THEN GroupFiles(Tail(list), DictAdd(dict, regex_result[1], file))
             ELSE GroupFiles(Tail(list), dict)

\* str.split("\n")
RECURSIVE SplitLines(_, _, _)
SplitLines(s, i, cur) ==
    IF i > Len(s) THEN <<cur>>
    ELSE IF Char(s, i) = "\n"
         THEN <<cur>> \o SplitLines(s, i + 1, "")
         ELSE SplitLines(s, i + 1, cur \o Char(s, i))

-----------------------------------------------------------------------------
(* clone_taxonomy: pure parts *)

\* A variant that does not ask whether the filter spec exists.
CloneCommandsAnyPath(repo, branch, spec, exists) ==
    LET c0 == <<"git", "clone", repo>>
    IN  IF spec # ""
        THEN c0 \o <<"--sparse", "--filter=sparse:oid=" \o branch \o ":" \o spec>>
        ELSE c0 \o <<"--branch", branch>>

CloneCommands(repo, branch, spec, exists) ==
    LET c0 == <<"git", "clone", repo>>
    IN  IF spec # "" /\ exists
        THEN c0 \o <<"--sparse", "--filter=sparse:oid=" \o branch \o ":" \o spec>>
        ELSE c0 \o <<"--branch", branch>>

-----------------------------------------------------------------------------
(* Initial state: the arguments of the call and the disk before it *)

EmptyDir == [n \in {} |-> ""]

TaxonomyRepo == "https://github.com/open-labrador/taxonomy.git"

Init ==
    /\ op \in {"download_model", "clone_taxonomy"}
    /\ pc = "start"
    /\ gh_repo \in (IF op = "download_model" THEN Repos ELSE {TaxonomyRepo})
    /\ gh_release \in (IF op = "download_model" THEN Releases ELSE {"latest"})
    /\ dir \in (IF op = "download_model" THEN Dirs ELSE {"."})
    /\ pattern \in (IF op = "download_model" THEN Patterns ELSE {""})
    /\ gh_branch \in (IF op = "clone_taxonomy" THEN Branches ELSE {"main"})
    /\ git_filter_spec \in (IF op = "clone_taxonomy" THEN FilterSpecs ELSE {""})
    /\ local_paths \in (IF op = "clone_taxonomy" THEN SUBSET (FilterSpecs \ {""}) ELSE {{}})
    /\ \E S \in SUBSET (DOMAIN PreExisting) :
          /\ Cardinality(S) <= MaxPreExisting
          /\ op = "clone_taxonomy" => S = {}
          /\ fs = [d \in Dirs |-> IF d = "." THEN [n \in S |-> PreExisting[n]] ELSE EmptyDir]
    /\ download_commands = <<>>
    /\ gh_result = [stdout |-> "", stderr |-> "", returncode |-> 0]
    /\ file_list = <<>>
    /\ splitted_models = <<>>
    /\ gi = 0
    /\ combined_model_list = <<>>
    /\ git_clone_commands = <<>>
    /\ result = [stdout |-> "", stderr |-> "", returncode |-> 0]
    /\ calls = <<>>
    /\ opened = <<>>
    /\ raised = NoException
    /\ echoed = <<>>
    /\ pass = 1
    /\ downloaded = {}

-----------------------------------------------------------------------------
(* download_model *)

\* lines 24-34
BuildDownloadCommands ==
    /\ op = "download_model" /\ pc = "start"
    /\ download_commands' = DownloadCommands(gh_repo, gh_release, dir, pattern)
    /\ echoed' = echoed \o
         <<"\nMake sure the local environment has the \"gh\" cli. https://cli.github.com",
           "\nDownloading Models from " \o gh_repo \o " with version " \o gh_release
              \o " to local directory " \o dir \o " ...\n">>
    /\ pc' = "run_gh"
    /\ UNCHANGED <<op, gh_repo, gh_release, dir, pattern, gh_branch, git_filter_spec,
                   local_paths, fs, gh_result, file_list, splitted_models, gi,
                   combined_model_list, git_clone_commands, result, calls, opened,
                   raised, pass, downloaded>>

\* What gh does with the command line it is given: it places assets of the
\* release that match the pattern (all of them when there is none) into the
\* directory named by --dir, never over an existing file, and may report on
\* stderr.
GhOutcomes(cmd, disk) ==
    LET pats == OptionValues(cmd, "--pattern")
        target == CHOOSE d \in OptionValues(cmd, "--dir") : TRUE
        match == {n \in DOMAIN Assets :
                     /\ pats = {} \/ \E q \in pats : GlobMatch(q, n)
                     /\ n \notin DOMAIN disk[target]}
    IN  {[target |-> target, got |-> G, stderr |-> e] :
            G \in {H \in SUBSET match : Cardinality(H) <= MaxAssets},
            e \in {"", "release not found"}}

\* line 35, the process ran
RunGh ==
    /\ op = "download_model" /\ pc = "run_gh"
    /\ \E o \in GhOutcomes(download_commands, fs) :
          /\ fs' = [fs EXCEPT ![o.target] = Overlay(@, [n \in o.got |-> Assets[n]])]
          /\ gh_result' = [stdout |-> "", stderr |-> o.stderr,
                           returncode |-> IF o.stderr = "" THEN 0 ELSE 1]
          /\ calls' = Append(calls, [argv |-> download_commands, stdout |-> "",
                                     returncode |-> IF o.stderr = "" THEN 0 ELSE 1])
          /\ downloaded' = o.got
    /\ pc' = "check_gh"
    /\ UNCHANGED <<op, gh_repo, gh_release, dir, pattern, gh_branch, git_filter_spec,
                   local_paths, download_commands, file_list, splitted_models, gi,
                   combined_model_list, git_clone_commands, result, opened, raised,
                   echoed, pass>>

\* A variant that looks at the wrong stream.
GhErrorOnStdout(r) == r.stdout # ""

\* lines 36-37
GhError(r) == r.stderr # ""

RaiseGhError ==
    /\ op = "download_model" /\ pc = "check_gh"
    /\ GhError(gh_result)
    /\ raised' = [kind |-> "Exception",
                  text |-> "gh command error occurred:\n\n " \o gh_result.stderr]
    /\ pc' = "raised"
    /\ UNCHANGED <<op, gh_repo, gh_release, dir, pattern, gh_branch, git_filter_spec,
                   local_paths, fs, download_commands, gh_result, file_list,
                   splitted_models, gi, combined_model_list, git_clone_commands,
                   result, calls, opened, echoed, pass, downloaded>>

\* The directory whose names ls (run without arguments) prints.
ListedDir == "."

\* lines 40-58
ListAndGroup ==
    /\ op = "download_model" /\ pc = "check_gh"
    /\ ~GhError(gh_result)
    /\ calls' = Append(calls, [argv |-> <<"ls">>, stdout |-> LsOutput(fs[ListedDir]),
                               returncode |-> 0])
    /\ file_list' = SplitLines(LsOutput(fs[ListedDir]), 1, "")
    /\ splitted_models' = GroupFiles(file_list', <<>>)
    /\ gi' = 0
    /\ combined_model_list' = <<>>
    /\ pc' = "combine"
    /\ UNCHANGED <<op, gh_repo, gh_release, dir, pattern, gh_branch, git_filter_spec,
                   local_paths, fs, download_commands, gh_result, git_clone_commands,
                   result, opened, raised, echoed, pass, downloaded>>

\* line 64
CatUsable(cat_result) == cat_result.stdout # ""

\* lines 60-63: the cat call of the next dict item, for each outcome of cat
CatResults(item) ==
    {[stdout |-> CatStdout(fs["."], item.value, bad),
      returncode |-> CatReturncode(fs["."], item.value, bad)] :
        bad \in Failing(item.value, MaxUnreadable)}

\* lines 59-70, one item whose cat output is written
CombineGroup ==
    /\ op = "download_model" /\ pc = "combine"
    /\ gi < Len(splitted_models)
    /\ LET item == splitted_models[gi + 1] IN
       \E cat_result \in CatResults(item), kept \in Failing(item.value, MaxUndeletable) :
          /\ CatUsable(cat_result)
          /\ fs' = [fs EXCEPT !["."] =
                       Without(Overlay(@, [n \in {item.key} |-> cat_result.stdout]),
                               Range(item.value) \ kept)]
          /\ opened' = Append(opened, item.key)
          /\ calls' = calls \o
                <<[argv |-> <<"cat">> \o item.value, stdout |-> cat_result.stdout,
                   returncode |-> cat_result.returncode],
                  [argv |-> <<"rm">> \o item.value, stdout |-> "",
                   returncode |-> IF kept = {} THEN 0 ELSE 1]>>
          /\ combined_model_list' = Append(combined_model_list, item.key)
    /\ gi' = gi + 1
    /\ UNCHANGED <<op, pc, gh_repo, gh_release, dir, pattern, gh_branch, git_filter_spec,
                   local_paths, download_commands, gh_result, file_list,
                   splitted_models, git_clone_commands, result, raised, echoed, pass,
                   downloaded>>

\* lines 59-64, one item whose cat output is not written
SkipGroup ==
    /\ op = "download_model" /\ pc = "combine"
    /\ gi < Len(splitted_models)
    /\ LET item == splitted_models[gi + 1] IN
       \E cat_result \in CatResults(item) :
          /\ ~CatUsable(cat_result)
          /\ calls' = Append(calls, [argv |-> <<"cat">> \o item.value,
                                     stdout |-> cat_result.stdout,
                                     returncode |-> cat_result.returncode])
    /\ gi' = gi + 1
    /\ UNCHANGED <<op, pc, gh_repo, gh_release, dir, pattern, gh_branch, git_filter_spec,
                   local_paths, fs, download_commands, gh_result, file_list,
                   splitted_models, combined_model_list, git_clone_commands, result,
                   opened, raised, echoed, pass, downloaded>>

\* lines 72-76
ReportDownload ==
    /\ op = "download_model" /\ pc = "combine"
    /\ gi = Len(splitted_models)
    /\ echoed' = echoed \o <<"\nDownload Completed.">> \o
                   (IF combined_model_list # <<>>
                    THEN <<"\nList of combined models: ">> \o combined_model_list
                    ELSE <<>>)
    /\ pc' = "done"
    /\ UNCHANGED <<op, gh_repo, gh_release, dir, pattern, gh_branch, git_filter_spec,
                   local_paths, fs, download_commands, gh_result, file_list,
                   splitted_models, gi, combined_model_list, git_clone_commands,
                   result, calls, opened, raised, pass, downloaded>>

\* The call combined every group it found and no fragment it listed is left.
CleanPass ==
    /\ Len(combined_model_list) = Len(splitted_models)
    /\ \A i \in 1..Len(splitted_models) :
          Range(splitted_models[i].value) \cap DOMAIN fs["."] = {}

\* The caller runs download_model again with the same arguments, on the disk
\* a clean call left.
DownloadAgain ==
    /\ op = "download_model" /\ pc = "done"
    /\ pass < MaxPasses
    /\ CleanPass
    /\ pass' = pass + 1
    /\ pc' = "start"
    /\ download_commands' = <<>>
    /\ gh_result' = [stdout |-> "", stderr |-> "", returncode |-> 0]
    /\ file_list' = <<>>
    /\ splitted_models' = <<>>
    /\ gi' = 0
    /\ combined_model_list' = <<>>
    /\ calls' = <<>>
    /\ opened' = <<>>
    /\ echoed' = <<>>
    /\ downloaded' = {}
    /\ UNCHANGED <<op, gh_repo, gh_release, dir, pattern, gh_branch, git_filter_spec,
                   local_paths, fs, git_clone_commands, result, raised>>

-----------------------------------------------------------------------------
(* clone_taxonomy *)

\* lines 94-104
BuildCloneCommands ==
    /\ op = "clone_taxonomy" /\ pc = "start"
    /\ echoed' = Append(echoed, "\nCloning repository " \o gh_repo \o " with branch \""
                                   \o gh_branch \o "\" ...")
    /\ git_clone_commands' =
         CloneCommands(gh_repo, gh_branch, git_filter_spec, git_filter_spec \in local_paths)
    /\ pc' = "run_git"
    /\ UNCHANGED <<op, gh_repo, gh_release, dir, pattern, gh_branch, git_filter_spec,
                   local_paths, fs, download_commands, gh_result, file_list,
                   splitted_models, gi, combined_model_list, result, calls, opened,
                   raised, pass, downloaded>>

\* What git can write to stderr: nothing, its progress text, or an error.
GitStderr == {"", "Cloning into 'taxonomy'...\n", "fatal: repository not found\n"}

\* line 106, the process ran
RunGit ==
    /\ op = "clone_taxonomy" /\ pc = "run_git"
    /\ \E e \in GitStderr, rc \in {0, 128} :
          /\ result' = [stdout |-> "", stderr |-> e, returncode |-> rc]
          /\ calls' = Append(calls, [argv |-> git_clone_commands, stdout |-> "",
                                     returncode |-> rc])
    /\ pc' = "check_git"
    /\ UNCHANGED <<op, gh_repo, gh_release, dir, pattern, gh_branch, git_filter_spec,
                   local_paths, fs, download_commands, gh_result, file_list,
                   splitted_models, gi, combined_model_list, git_clone_commands,
                   opened, raised, echoed, pass, downloaded>>

\* A variant that does not show stderr.
CloneReportSilent(r) == <<"Git clone completed.">>

\* lines 107-109
CloneReport(r) ==
    (IF r.stderr # "" THEN <<"\n" \o r.stderr>> ELSE <<>>) \o <<"Git clone completed.">>

ReportClone ==
    /\ op = "clone_taxonomy" /\ pc = "check_git"
    /\ echoed' = echoed \o CloneReport(result)
    /\ pc' = "done"
    /\ UNCHANGED <<op, gh_repo, gh_release, dir, pattern, gh_branch, git_filter_spec,
                   local_paths, fs, download_commands, gh_result, file_list,
                   splitted_models, gi, combined_model_list, git_clone_commands,
                   result, calls, opened, raised, pass, downloaded>>

-----------------------------------------------------------------------------
(* create_subprocess *)

\* line 174: subprocess.run raises when the executable cannot be started;
\* nothing has run and the exception leaves the calling function.
LaunchFailure ==
    /\ pc \in {"run_gh", "run_git"}
    /\ raised' = [kind |-> "FileNotFoundError",
                  text |-> IF pc = "run_gh" THEN "gh" ELSE "git"]
    /\ pc' = "raised"
    /\ UNCHANGED <<op, gh_repo, gh_release, dir, pattern, gh_branch, git_filter_spec,
                   local_paths, fs, download_commands, gh_result, file_list,
                   splitted_models, gi, combined_model_list, git_clone_commands,
                   result, calls, opened, echoed, pass, downloaded>>

-----------------------------------------------------------------------------

Next ==
    \/ BuildDownloadCommands
    \/ RunGh
    \/ RaiseGhError
    \/ ListAndGroup
    \/ CombineGroup
    \/ SkipGroup
    \/ ReportDownload
    \/ DownloadAgain
    \/ BuildCloneCommands
    \/ RunGit
    \/ ReportClone
    \/ LaunchFailure

Spec == Init /\ [][Next]_vars

-----------------------------------------------------------------------------
(* Helpers of the properties *)

\* The positions in the call log of the runs of program prog.
CallsOf(prog) == {i \in 1..Len(calls) : calls[i].argv[1] = prog}

EndsWith(text, tail) ==
    Len(tail) <= Len(text) /\ SubSeq(text, Len(text) - Len(tail) + 1, Len(text)) = tail

\* The arguments of a gh command line, from position i on, that are neither
\* an option nor the value of one.
RECURSIVE Positionals(_, _)
Positionals(cmd, i) ==
    IF i > Len(cmd) THEN <<>>
    ELSE IF cmd[i] \in {"--repo", "--dir", "--pattern"}
         THEN Positionals(cmd, i + 2)
         ELSE <<cmd[i]>> \o Positionals(cmd, i + 1)

\* The position of the first occurrence of the keyword in file (0: none).
FirstKeyword(file) ==
    LET n == Len(model_file_split_keyword)
        at == {i \in 1..Len(file) :
                  i + n - 1 <= Len(file) /\ SubSeq(file, i, i + n - 1) = model_file_split_keyword}
    IN  IF at = {} THEN 0 ELSE CHOOSE i \in at : \A k \in at : i <= k

\* The contents of the given files of the working directory, concatenated.
ContentsOf(files) == Concat([i \in 1..Len(files) |-> fs["."][files[i]]])

\* The dict item the loop of line 59 takes next.
NextItem == splitted_models[gi + 1]

\* This step finished one dict item.
ItemStep == pc = "combine" /\ gi' = gi + 1

\* The cat call of this step.
CatCall == calls'[Len(calls) + 1]

-----------------------------------------------------------------------------
(* Properties *)

\* C1: when the gh run of download_model returns stderr text, the call ends
\* with an exception that carries the text, and nothing runs after gh: no
\* ls, cat or rm call, no listing, no file written, no file removed.
DownloadStderrAborts ==
    /\ [](op = "download_model" /\ gh_result.stderr # "" =>
            /\ pc \in {"check_gh", "raised"}
            /\ pc = "raised" =>
                  raised.kind = "Exception" /\ EndsWith(raised.text, gh_result.stderr)
            /\ Len(calls) = 1 /\ CallsOf("gh") = {1}
            /\ file_list = <<>> /\ splitted_models = <<>>
            /\ opened = <<>> /\ combined_model_list = <<>>)
    /\ [][op = "download_model" /\ gh_result.stderr # "" =>
            pc' = "raised" /\ fs' = fs]_vars

\* C1 witness: the call ended with the exception after gh had placed files.
DownloadStderrAbortsWitness ==
    pc = "raised" /\ raised.kind = "Exception" /\ downloaded # {}

\* C2: when a name is recorded in combined_model_list, the file of that name
\* exists and no file of its group is left, whatever rm returned.
RecordedMeansFragmentsGone ==
    [][Len(combined_model_list') > Len(combined_model_list) =>
          /\ NextItem.key \in DOMAIN fs'["."]
          /\ Range(NextItem.value) \cap DOMAIN fs'["."] = {}]_vars

\* C3: when cat exits non-zero or prints nothing for a group, no file is
\* written, no file of the group is removed and the name is not recorded.
FailedCatLeavesGroup ==
    [][ItemStep /\ (CatCall.returncode # 0 \/ CatCall.stdout = "") =>
          /\ fs' = fs
          /\ opened' = opened
          /\ combined_model_list' = combined_model_list]_vars

\* C4: each group lists its files in listing order, the file written for a
\* combined group holds the contents of the group's files concatenated in
\* that order, and groups are processed and recorded in the order in which
\* their first file occurs in the listing.
ListingOrderConcatenation ==
    /\ [](pc \in {"combine", "done"} =>
            /\ \A i \in 1..Len(splitted_models) :
                  splitted_models[i].value =
                     SelectSeq(file_list, LAMBDA f : f \in Range(splitted_models[i].value))
            /\ \A i, j \in 1..Len(splitted_models) :
                  i < j => \E m \in 1..Len(file_list) :
                             /\ file_list[m] = splitted_models[i].value[1]
                             /\ \A k \in 1..m : file_list[k] # splitted_models[j].value[1]
            /\ combined_model_list =
                  SelectSeq(SubSeq(DictKeys(splitted_models), 1, gi),
                            LAMBDA k : k \in Range(combined_model_list)))
    /\ [][Len(combined_model_list') > Len(combined_model_list) =>
            fs'["."][NextItem.key] = ContentsOf(NextItem.value)]_vars

\* C5: a call that follows a clean call, and whose gh run adds no file,
\* finds no group, runs neither cat nor rm, writes nothing and records
\* nothing.
SecondPassIsNoOp ==
    pass > 1 /\ downloaded = {} /\ pc \in {"combine", "done"} =>
        /\ splitted_models = <<>>
        /\ CallsOf("cat") = {} /\ CallsOf("rm") = {}
        /\ opened = <<>>
        /\ combined_model_list = <<>>

\* C6: the gh command line holds the release tag exactly when the tag is not
\* "latest"; a given pattern is passed once, as given; "latest" without a
\* pattern passes "*" once; repository and directory are passed as given.
DownloadCommandShape ==
    op = "download_model" /\ pc # "start" =>
        LET cmd == download_commands IN
        /\ SubSeq(cmd, 1, 3) = <<"gh", "release", "download">>
        /\ Positionals(cmd, 4) = IF gh_release = "latest" THEN <<>> ELSE <<gh_release>>
        /\ pattern # "" =>
              Cardinality(OptionIdx(cmd, "--pattern")) = 1
              /\ OptionValues(cmd, "--pattern") = {pattern}
        /\ pattern = "" /\ gh_release = "latest" =>
              Cardinality(OptionIdx(cmd, "--pattern")) = 1
              /\ OptionValues(cmd, "--pattern") = {"*"}
        /\ Cardinality(OptionIdx(cmd, "--repo")) = 1
        /\ OptionValues(cmd, "--repo") = {gh_repo}
        /\ Cardinality(OptionIdx(cmd, "--dir")) = 1
        /\ OptionValues(cmd, "--dir") = {dir}

\* C6 witness: gh was run for "latest" without a pattern.
DownloadCommandShapeWitness ==
    /\ op = "download_model" /\ pc = "check_gh"
    /\ gh_release = "latest" /\ pattern = ""
    /\ calls[1].argv = download_commands

\* The two forms of the git command line.
SparseForm(cmd) ==
    /\ "--sparse" \in Range(cmd)
    /\ ("--filter=sparse:oid=" \o gh_branch \o ":" \o git_filter_spec) \in Range(cmd)
    /\ "--branch" \notin Range(cmd)

StandardForm(cmd) ==
    /\ Cardinality(OptionIdx(cmd, "--branch")) = 1
    /\ OptionValues(cmd, "--branch") = {gh_branch}
    /\ "--sparse" \notin Range(cmd)
    /\ \A i \in 1..Len(cmd) : Len(cmd[i]) >= 8 => SubSeq(cmd[i], 1, 8) # "--filter"

\* C7: the git command line is the sparse form exactly when the filter spec
\* is non-empty and exists; otherwise it is the standard form with the
\* branch flag; one of them is issued per call.
CloneCommandForm ==
    op = "clone_taxonomy" /\ pc # "start" =>
        LET cmd == git_clone_commands
            sparse == git_filter_spec # "" /\ git_filter_spec \in local_paths
        IN  /\ SubSeq(cmd, 1, 3) = <<"git", "clone", gh_repo>>
            /\ sparse => SparseForm(cmd) /\ ~StandardForm(cmd)
            /\ ~sparse => StandardForm(cmd) /\ ~SparseForm(cmd)
            /\ pc \in {"check_git", "done"} =>
                  Len(calls) = 1 /\ calls[1].argv = cmd

\* C7 witness: a clone ran with a filter spec that does not exist.
CloneCommandFormWitness ==
    /\ op = "clone_taxonomy" /\ pc = "done"
    /\ git_filter_spec # "" /\ git_filter_spec \notin local_paths

\* C8: whatever the git run returned, clone_taxonomy ran it once, shows its
\* stderr text when there is some, and returns without an exception.
CloneNeverAborts ==
    /\ [](op = "clone_taxonomy" /\ pc \in {"check_git", "done"} =>
            /\ raised = NoException
            /\ Len(calls) = 1 /\ CallsOf("git") = {1}
            /\ pc = "done" =>
                  /\ result.stderr # "" =>
                        \E i \in 1..Len(echoed) : EndsWith(echoed[i], result.stderr)
                  /\ echoed[Len(echoed)] = "Git clone completed.")
    /\ [][op = "clone_taxonomy" /\ pc = "check_git" =>
            pc' = "done" /\ raised' = NoException /\ calls' = calls]_vars

\* C8 witness: the clone returned after git failed with stderr text.
CloneNeverAbortsWitness ==
    /\ op = "clone_taxonomy" /\ pc = "done"
    /\ result.stderr # "" /\ result.returncode # 0

\* C9: a listed name that holds the keyword is grouped under the part of the
\* name before the first occurrence of the keyword, so that no group name
\* holds the keyword.
GroupedUnderFirstPrefix ==
    pc \in {"combine", "done"} =>
        \A i \in 1..Len(splitted_models) :
            /\ \A f \in Range(splitted_models[i].value) :
                  splitted_models[i].key = SubSeq(f, 1, FirstKeyword(f) - 1)
            /\ ~Contains(splitted_models[i].key, model_file_split_keyword)

\* C10: after a gh run without stderr text the names listed are the names of
\* the directory gh was told to download into.
ListingIsTargetDir ==
    [][op = "download_model" /\ pc = "check_gh" /\ pc' = "combine" =>
          Range(file_list') \ {""} = DOMAIN fs[dir]]_vars

====
